---- MODULE Spec2Model ----
(***************************************************************************)
(* Model of app.py: the gas-range dashboard.  One script run (a Streamlit  *)
(* rerun) is triggered by every widget change and recomputes every derived *)
(* table of the selected analysis from the loaded data frames; each action *)
(* below is one widget change together with the rerun it triggers.         *)
(*                                                                         *)
(* Strings of the source that are matched by substring (district names,    *)
(* GeoJSON property values) are sequences of syllables, one element per    *)
(* Hangul character, romanised ("jung","gu" for the two characters of the  *)
(* Jung-gu district); a trailing blank is the element " ".  Category       *)
(* strings that are only compared for equality are plain strings.          *)
(*                                                                         *)
(* A float that may be NaN is a record [num, den]; NaN is den = 0.         *)
(* Floating-point rounding error is not modelled: the arithmetic is exact. *)
(***************************************************************************)
EXTENDS Integers, Sequences, FiniteSets, TLC

VARIABLES
    raw,             \* the first sheet of the analysis-1 file, as read
    load_status,     \* load_data(): "ok", "stopped" (st.stop) or "ValueError"
    df_raw,          \* load_data(): records of analysis 1
    usage_raw,       \* the analysis-2 file (v3, else v2) with its sheets, as read
    df_usage_raw,    \* load_data_with_usage(): records of analysis 2, or None
    geojson,         \* load_geojson()[0]
    GEO_NAME_FIELD,  \* load_geojson()[1]
    cache_key,       \* st.cache_data of build_map_table_cached: the key of the
                     \* one entry that is followed, NoKey when none is
    cache_entry,     \* the entry of cache_key: <<>> or <<the stored table>>
    analysis_mode,   \* sidebar radio: 1 or 2
    base_year,       \* select_slider, lower end
    comp_year,       \* select_slider, upper end
    usage_sel,       \* multiselect
    product_sel,     \* multiselect
    district_sel,    \* multiselect
    year_sel_gu,     \* selectbox of the district comparison (analysis 2, tab a)
    year_sel,        \* selectbox of the district/usage tab (analysis 2, tab b)
    tab1,            \* tab1 of analysis 1: how it ended and its yearly summary
    pivot_table,     \* tab2 of analysis 1: the frame build_map_table_cached
                     \* returned, as it is at the end of the run
    map_table,       \* tab2 of analysis 1: the pivot with geo_key attached
    choropleth,      \* tab2 of analysis 1: the style of every drawn feature
    year_agg,        \* analysis 2, yearly estimation table
    gu_house,        \* analysis 2, district comparison table
    grp,             \* analysis 2, year x district x usage estimation table
    gu_agg           \* analysis 2, district totals of the selected year of grp

vars == <<raw, load_status, df_raw, usage_raw, df_usage_raw, geojson, GEO_NAME_FIELD,
          cache_key,
          cache_entry, analysis_mode,
          base_year, comp_year, usage_sel, product_sel, district_sel,
          year_sel_gu, year_sel, tab1, pivot_table, map_table, choropleth, year_agg,
          gu_house, grp, gu_agg>>

-----------------------------------------------------------------------------
(* Bounds of the model *)

\* rows of the analysis-1 sheet
MaxRows == 2

\* rows of the gas-range sheet of the analysis-2 file
MaxUsageRows == 2

\* features of the boundary file
MaxFeatures == 2

\* data rows of the raw analysis-1 sheet
MaxRawRows == 2

-----------------------------------------------------------------------------
(* Names *)

JungGu == <<"jung", "gu">>
DongGu == <<"dong", "gu">>
SeoGu == <<"seo", "gu">>
NamGu == <<"nam", "gu">>
BukGu == <<"buk", "gu">>
SuseongGu == <<"su", "seong", "gu">>
DalseoGu == <<"dal", "seo", "gu">>
DalseongGun == <<"dal", "seong", "gun">>
GyeongsanSi == <<"gyeong", "san", "si">>

\* a district outside the target list
ChilgokGun == <<"chil", "gok", "gun">>

TARGET_SIGUNGU ==
    <<JungGu, DongGu, SeoGu, NamGu, BukGu, SuseongGu, DalseoGu, DalseongGun,
      GyeongsanSi>>

-----------------------------------------------------------------------------
(* Floats *)

NaN == [num |-> 0, den |-> 0]

Rat(n, d) == [num |-> n, den |-> d]

IsNaN(x) == x.den = 0

\* x == y for two floats (NaN equals nothing in the code; here it is only
\* used on defined values)
RatEq(x, y) == ~IsNaN(x) /\ ~IsNaN(y) /\ x.num * y.den = y.num * x.den

RatLt0(x) == ~IsNaN(x) /\ x.num < 0

-----------------------------------------------------------------------------
(* Sequence helpers *)

Range(s) == {s[i] : i \in 1..Len(s)}

RECURSIVE SumSeq(_)
SumSeq(s) == IF s = <<>> THEN 0 ELSE Head(s) + SumSeq(Tail(s))

RECURSIVE SortedSeq(_)
\* the elements of a finite set of integers in ascending order
SortedSeq(S) ==
    IF S = {} THEN <<>>
    ELSE LET m == CHOOSE x \in S : \A y \in S : x <= y
         IN <<m>> \o SortedSeq(S \ {m})

\* python's  d in name  on strings
IsSubstring(d, name) ==
    \E i \in 0..(Len(name) - Len(d)) : SubSeq(name, i + 1, i + Len(d)) = d

-----------------------------------------------------------------------------
(* Cells and their text *)

\* A text is a sequence of characters.  A cell of a sheet is an integer, a
\* whole float, a text or empty (NaN): [t, n, s] with n the number of an
\* integer or float cell and s the text of a text cell.
IntCell(n) == [t |-> "int", n |-> n, s |-> <<>>]

FloatCell(n) == [t |-> "float", n |-> n, s |-> <<>>]

StrCell(s) == [t |-> "str", n |-> 0, s |-> s]

NanCell == [t |-> "nan", n |-> 0, s |-> <<>>]

Digits == <<"0", "1", "2", "3", "4", "5", "6", "7", "8", "9">>

IsDigit(c) == c \in Range(Digits)

DigitVal(c) == (CHOOSE k \in 1..10 : Digits[k] = c) - 1

RECURSIVE IntToStr(_)
\* str(n) of an integer n >= 0
IntToStr(n) ==
    IF n < 10 THEN <<Digits[n + 1]>>
    ELSE IntToStr(n \div 10) \o <<Digits[(n % 10) + 1]>>

RECURSIVE StrToInt(_)
\* int(s) of a text of digits
StrToInt(s) ==
    IF s = <<>> THEN 0
    ELSE StrToInt(SubSeq(s, 1, Len(s) - 1)) * 10 + DigitVal(s[Len(s)])

\* int(s) does not raise: s is a non-empty text of digits
IsIntText(s) == s # <<>> /\ \A i \in 1..Len(s) : IsDigit(s[i])

\* str(n) of an integer: the sign, then the digits
SignedToStr(n) == IF n < 0 THEN <<"-">> \o IntToStr(-n) ELSE IntToStr(n)

\* .astype(str) of a cell: 201501 gives "201501", 201501.0 gives "201501.0",
\* -5 gives "-5", an empty cell gives "nan"
AsStr(cell) ==
    CASE cell.t = "int" -> SignedToStr(cell.n)
      [] cell.t = "float" -> SignedToStr(cell.n) \o <<".", "0">>
      [] cell.t = "str" -> cell.s
      [] OTHER -> <<"n", "a", "n">>

RECURSIVE Strip(_)
\* str.strip(): leading and trailing blanks are removed
Strip(s) ==
    IF s = <<>> THEN s
    ELSE IF Head(s) = " " THEN Strip(Tail(s))
    ELSE IF s[Len(s)] = " " THEN Strip(SubSeq(s, 1, Len(s) - 1))
    ELSE s

\* s[a:b] of python, a and b counted from 0
Slice(s, a, b) == SubSeq(s, a + 1, IF b < Len(s) THEN b ELSE Len(s))

\* str.replace(",", "", regex=False)
RemoveCommas(s) ==
    LET Keep(c) == c # ","
    IN SelectSeq(s, Keep)

\* pd.to_numeric(errors="coerce") of a text without a sign: the number of a
\* text of digits or of digits, a point and digits; NaN for every other text
\* (exponents and blanks are not in the texts of the model)
ToNumericUnsigned(s) ==
    IF IsIntText(s) THEN Rat(StrToInt(s), 1)
    ELSE IF \E k \in 1..Len(s) :
                /\ s[k] = "."
                /\ IsIntText(SubSeq(s, 1, k - 1))
                /\ \A i \in (k + 1)..Len(s) : IsDigit(s[i])
         THEN LET k == CHOOSE k \in 1..Len(s) : s[k] = "."
                  frac == SubSeq(s, k + 1, Len(s))
                  scale == 10 ^ Len(frac)
              IN Rat(StrToInt(SubSeq(s, 1, k - 1)) * scale + StrToInt(frac), scale)
         ELSE NaN

\* pd.to_numeric(errors="coerce") of a text: a leading minus sign negates
ToNumeric(s) ==
    IF s # <<>> /\ Head(s) = "-"
    THEN LET x == ToNumericUnsigned(Tail(s))
         IN IF IsNaN(x) THEN NaN ELSE Rat(-x.num, x.den)
    ELSE ToNumericUnsigned(s)

\* astype(int) of a float: the fraction is cut off, towards 0
Truncate(x) ==
    IF x.num < 0 THEN -((-x.num) \div x.den) ELSE x.num \div x.den

\* mutant of _to_int_series: the thousands separators are not removed
ToIntSeriesKeepCommas(cell) ==
    LET x == ToNumeric(AsStr(cell))
    IN IF IsNaN(x) THEN 0 ELSE Truncate(x)

\* _to_int_series on one cell: text, commas removed, to_numeric, NaN to 0,
\* astype(int) (which cuts the fraction off)
_to_int_series(cell) ==
    LET x == ToNumeric(RemoveCommas(AsStr(cell)))
    IN IF IsNaN(x) THEN 0 ELSE Truncate(x)

-----------------------------------------------------------------------------
(* Analysis 1: loading *)

\* A row of the raw sheet: the cell of the first column, the cells of the
\* usage, product and district columns (texts; usage and product are plain
\* strings, their strip is not modelled) and the cell of the count column.

\* the header key, the two characters of "gubun"
COL_YEAR_MONTH == <<"gu", "bun">>

\* the text of a category cell that is empty
NoText == "nan"

\* mutant of header_rows: the first cell is compared without strip
HeaderRowsUnstripped(raw_sheet) ==
    {i \in 1..Len(raw_sheet) : AsStr(raw_sheet[i].first) = COL_YEAR_MONTH}

\* the rows whose first cell, as text and stripped, is the header key
header_rows(raw_sheet) ==
    {i \in 1..Len(raw_sheet) : Strip(AsStr(raw_sheet[i].first)) = COL_YEAR_MONTH}

\* dropna(how="all") keeps a row with some cell that is not empty
IsBlankRow(r) ==
    /\ r.first.t = "nan"
    /\ r.usage = NoText
    /\ r.product = NoText
    /\ r.district = <<>>
    /\ r.cnt.t = "nan"

\* mutant of PeriodMonth: the month is cut from the wrong place
PeriodMonthShifted(p) == StrToInt(Slice(p, 2, 4))

\* df[period].str[:4].astype(int)
PeriodYear(p) == StrToInt(Slice(p, 0, 4))

\* df[period].str[4:6].astype(int)
PeriodMonth(p) == StrToInt(Slice(p, 4, 6))

\* the two astype(int) of the period column do not raise on this text
PeriodParses(p) == IsIntText(Slice(p, 0, 4)) /\ IsIntText(Slice(p, 4, 6))

\* mutant of load_data: the rows whose period is no number are left out
LoadDataSkipBad(raw_sheet) ==
    IF header_rows(raw_sheet) = {}
    THEN [status |-> "stopped", df |-> <<>>]
    ELSE LET header_idx == CHOOSE i \in header_rows(raw_sheet) :
                               \A k \in header_rows(raw_sheet) : i <= k
             Good(r) == ~IsBlankRow(r) /\ PeriodParses(Strip(AsStr(r.first)))
             df == SelectSeq(SubSeq(raw_sheet, header_idx + 1, Len(raw_sheet)),
                             Good)
             Period(i) == Strip(AsStr(df[i].first))
         IN [status |-> "ok",
             df |-> [i \in 1..Len(df) |->
                 [period |-> Period(i),
                  year |-> PeriodYear(Period(i)),
                  month |-> PeriodMonth(Period(i)),
                  usage |-> df[i].usage,
                  product |-> df[i].product,
                  district |-> Strip(df[i].district),
                  range_cnt |-> _to_int_series(df[i].cnt)]]]

\* load_data: without a header row the error is shown and the script stops;
\* else the rows under the first header row that are not blank become
\* records, or ValueError is raised by a period that is no number
load_data(raw_sheet) ==
    IF header_rows(raw_sheet) = {}
    THEN [status |-> "stopped", df |-> <<>>]
    ELSE LET header_idx == CHOOSE i \in header_rows(raw_sheet) :
                               \A k \in header_rows(raw_sheet) : i <= k
             NotBlank(r) == ~IsBlankRow(r)
             df == SelectSeq(SubSeq(raw_sheet, header_idx + 1, Len(raw_sheet)),
                             NotBlank)
             Period(i) == Strip(AsStr(df[i].first))
         IN IF \E i \in 1..Len(df) : ~PeriodParses(Period(i))
            THEN [status |-> "ValueError", df |-> <<>>]
            ELSE [status |-> "ok",
                  df |-> [i \in 1..Len(df) |->
                      [period |-> Period(i),
                       year |-> PeriodYear(Period(i)),
                       month |-> PeriodMonth(Period(i)),
                       usage |-> df[i].usage,
                       product |-> df[i].product,
                       district |-> Strip(df[i].district),
                       range_cnt |-> _to_int_series(df[i].cnt)]]]

\* sorted(df_raw[col].unique()) for the year column
years == SortedSeq({df_raw[i].year : i \in 1..Len(df_raw)})

usage_list == {df_raw[i].usage : i \in 1..Len(df_raw)}

product_list == {df_raw[i].product : i \in 1..Len(df_raw)}

district_list == {df_raw[i].district : i \in 1..Len(df_raw)}

-----------------------------------------------------------------------------
(* Analysis 1: the district decrease pivot *)

\* df[df[COL_USAGE].isin(usage)] then df[df[COL_PRODUCT].isin(product)]
FilterUsageProduct(df, usage, product) ==
    LET Keep(r) == r.usage \in usage /\ r.product \in product
    IN SelectSeq(df, Keep)

\* mutant of FilterTarget: the target-district filter is left out
FilterTargetNone(df) == df

\* df_map[df_map[COL_DISTRICT].isin(TARGET_SIGUNGU)]
FilterTarget(df) ==
    LET Keep(r) == r.district \in Range(TARGET_SIGUNGU)
    IN SelectSeq(df, Keep)

\* df_map[df_map[year].isin([base_year, comp_year])]
FilterYears(df, by, cy) ==
    LET Keep(r) == r.year \in {by, cy}
    IN SelectSeq(df, Keep)

\* map_df.groupby([year, district], as_index=False)[COL_RANGE_CNT].sum()
GroupYearDistrict(df) ==
    LET keys == {<<df[i].year, df[i].district>> : i \in 1..Len(df)}
        SameKey(k) ==
            LET Keep(r) == r.year = k[1] /\ r.district = k[2]
            IN SelectSeq(df, Keep)
        Cnt(k) == [i \in 1..Len(SameKey(k)) |-> SameKey(k)[i].range_cnt]
    IN {[year |-> k[1], district |-> k[2], range_cnt |-> SumSeq(Cnt(k))] :
          k \in keys}

\* .pivot(index=district, columns=year).reindex(index=TARGET_SIGUNGU): the
\* cell of district d and year column y, NaN where no group exists
PivotCell(grouped, d, y) ==
    IF \E g \in grouped : g.district = d /\ g.year = y
    THEN Rat((CHOOSE g \in grouped : g.district = d /\ g.year = y).range_cnt, 1)
    ELSE NaN

\* .fillna(0)
FillNa0(x) == IF IsNaN(x) THEN 0 ELSE x.num

\* pivot_map[y], after  if y not in pivot_map.columns: pivot_map[y] = 0
YearColumn(grouped, d, y) ==
    IF y \in {g.year : g \in grouped}
    THEN FillNa0(PivotCell(grouped, d, y))
    ELSE 0

RECURSIVE SetToSeq(_)
\* the elements of a finite set in some order
SetToSeq(S) ==
    IF S = {} THEN <<>>
    ELSE LET x == CHOOSE x \in S : TRUE
         IN <<x>> \o SetToSeq(S \ {x})

\* mutant of PivotIndex: no reindex, the pivot keeps the districts of the data
PivotIndexGrouped(grouped) == SetToSeq({g.district : g \in grouped})

\* the index of the pivot after .reindex(index=TARGET_SIGUNGU)
PivotIndex(grouped) == TARGET_SIGUNGU

\* mutant of DecreaseAmount: the operands are swapped
DecreaseAmountSwapped(base_val, comp_val) == comp_val - base_val

\* pivot_map[base_year] - pivot_map[comp_year]
DecreaseAmount(base_val, comp_val) == base_val - comp_val

\* round-half-even of n/d to an integer, d > 0 (numpy's round)
RoundHalfEven(n, d) ==
    LET q == n \div d
        r == n - q * d
    IN IF 2 * r < d THEN q
       ELSE IF 2 * r > d THEN q + 1
       ELSE IF q % 2 = 0 THEN q ELSE q + 1

\* mutant of DecreaseRate: 0 instead of NaN where the base is not positive
DecreaseRateZero(amount, base_val) ==
    IF base_val > 0
    THEN Rat(RoundHalfEven(amount * 1000, base_val), 10)
    ELSE Rat(0, 10)

\* np.where(base > 0, amount / base * 100, np.nan).round(1), in tenths
DecreaseRate(amount, base_val) ==
    IF base_val > 0
    THEN Rat(RoundHalfEven(amount * 1000, base_val), 10)
    ELSE NaN

build_map_table_cached(df, usage, product, by, cy) ==
    LET df_map == FilterTarget(FilterUsageProduct(df, usage, product))
        map_df == FilterYears(df_map, by, cy)
        grouped == GroupYearDistrict(map_df)
        Row(d) ==
            LET b == YearColumn(grouped, d, by)
                c == YearColumn(grouped, d, cy)
            IN [district |-> d,
                base_val |-> b,
                comp_val |-> c,
                decrease |-> DecreaseAmount(b, c),
                rate |-> DecreaseRate(DecreaseAmount(b, c), b)]
    IN IF map_df = <<>>
       THEN <<>>
       ELSE [i \in 1..Len(PivotIndex(grouped)) |-> Row(PivotIndex(grouped)[i])]

NoKey == <<>>

\* mutant of CacheKey: the compare year is not part of the key
CacheKeyNoCompYear(df, usage, product, by, cy) == <<df, usage, product, by>>

\* the key st.cache_data gives a call: the values of all its arguments
CacheKey(df, usage, product, by, cy) == <<df, usage, product, by, cy>>

\* the call of the followed key finds its entry
CacheHit(df, usage, product, by, cy) ==
    CacheKey(df, usage, product, by, cy) = cache_key /\ cache_entry # <<>>

\* what a call of the decorated function returns: the stored table of an
\* equal key, else the result of the function body
CachedCall(df, usage, product, by, cy) ==
    IF CacheHit(df, usage, product, by, cy)
    THEN cache_entry[1]
    ELSE build_map_table_cached(df, usage, product, by, cy)

\* the entry of the followed key after the call: stored on the first call
CacheAfterCall(df, usage, product, by, cy) ==
    IF CacheKey(df, usage, product, by, cy) = cache_key /\ cache_entry = <<>>
    THEN <<build_map_table_cached(df, usage, product, by, cy)>>
    ELSE cache_entry

-----------------------------------------------------------------------------
(* Analysis 1: boundary features and geo_key *)

\* a feature is its properties: a sequence of <<key, value>> pairs in
\* declaration order;  f["properties"].get(key, "")
PropGet(f, key) ==
    IF \E j \in 1..Len(f) : f[j][1] = key
    THEN f[CHOOSE j \in 1..Len(f) : f[j][1] = key][2]
    ELSE <<>>

NoGeojson == [exists |-> FALSE, features |-> <<>>]

NoField == "None"

\* score of a property key: the target districts contained in some value
FieldScore(features, key) ==
    Cardinality({d \in Range(TARGET_SIGUNGU) :
        \E i \in 1..Len(features) : IsSubstring(d, PropGet(features[i], key))})

RECURSIVE BestFieldLast(_, _, _, _)
\* mutant of BestField: a key replaces the best one on an equal score too
BestFieldLast(features, keys, best_field, best_score) ==
    IF keys = <<>> THEN best_field
    ELSE LET score == FieldScore(features, Head(keys))
         IN IF score >= best_score
            THEN BestFieldLast(features, Tail(keys), Head(keys), score)
            ELSE BestFieldLast(features, Tail(keys), best_field, best_score)

RECURSIVE BestField(_, _, _, _)
\* the loop over props_keys: a key replaces the best one on a greater score
BestField(features, keys, best_field, best_score) ==
    IF keys = <<>> THEN best_field
    ELSE LET score == FieldScore(features, Head(keys))
         IN IF score > best_score
            THEN BestField(features, Tail(keys), Head(keys), score)
            ELSE BestField(features, Tail(keys), best_field, best_score)

\* mutant of load_geojson: the keys are gone through in an order that differs
\* between runs (the reverse of the declaration order in runs of analysis 2)
LoadGeojsonUnordered(file) ==
    IF ~file.exists THEN <<NoGeojson, NoField>>
    ELSE IF file.features = <<>> THEN <<file, NoField>>
    ELSE LET first == file.features[1]
             n == Len(first)
             props_keys ==
                 [j \in 1..n |->
                     IF analysis_mode = 2 THEN first[n + 1 - j][1] ELSE first[j][1]]
         IN <<file, BestField(file.features, props_keys, NoField, -1)>>

\* load_geojson: <<geojson, GEO_NAME_FIELD>> of a boundary file
load_geojson(file) ==
    IF ~file.exists THEN <<NoGeojson, NoField>>
    ELSE IF file.features = <<>> THEN <<file, NoField>>
    ELSE LET first == file.features[1]
             props_keys == [j \in 1..Len(first) |-> first[j][1]]
         IN <<file, BestField(file.features, props_keys, NoField, -1)>>

RECURSIVE FirstContaining(_, _, _)
\* find_geo_name: the first name that contains d, else d
FirstContaining(d, geo_names, i) ==
    IF i > Len(geo_names) THEN d
    ELSE IF IsSubstring(d, geo_names[i]) THEN geo_names[i]
    ELSE FirstContaining(d, geo_names, i + 1)

RECURSIVE FirstEitherWay(_, _, _)
\* the first name that contains d or that d contains, else d
FirstEitherWay(d, geo_names, i) ==
    IF i > Len(geo_names) THEN d
    ELSE IF IsSubstring(d, geo_names[i]) \/ IsSubstring(geo_names[i], d)
         THEN geo_names[i]
    ELSE FirstEitherWay(d, geo_names, i + 1)

\* mutant of find_geo_name: a name that d contains is taken as well
FindGeoNameEitherWay(d, geo_names) == FirstEitherWay(d, geo_names, 1)

\* mutant of find_geo_name: only a name equal to d is taken, which is d itself
FindGeoNameExactOnly(d, geo_names) == d

find_geo_name(d, geo_names) == FirstContaining(d, geo_names, 1)

WithGeoKey(row, key) ==
    [district |-> row.district, base_val |-> row.base_val,
     comp_val |-> row.comp_val, decrease |-> row.decrease,
     rate |-> row.rate, geo_key |-> key]

_attach_geo_key(mt, gj, field) ==
    LET geo_names == [i \in 1..Len(gj.features) |-> PropGet(gj.features[i], field)]
    IN [i \in 1..Len(mt) |-> WithGeoKey(mt[i], find_geo_name(mt[i].district, geo_names))]

\* row_by_key.get(key) is not None: some row has this geo_key
HasRow(mt, key) == \E i \in 1..Len(mt) : mt[i].geo_key = key

\* row_by_key[key]: the dict is filled in row order, so the last row of a
\* geo_key stays
row_by_key(mt, key) ==
    mt[CHOOSE i \in 1..Len(mt) :
          /\ mt[i].geo_key = key
          /\ \A k \in 1..Len(mt) : mt[k].geo_key = key => k <= i]

\* mutant of style_function: a feature without a row is coloured as a
\* decrease of 0
StyleFunctionZero(mt, field, feature) ==
    LET key == PropGet(feature, field)
    IN IF HasRow(mt, key)
       THEN [key |-> key, grey |-> FALSE, v |-> row_by_key(mt, key).decrease]
       ELSE [key |-> key, grey |-> FALSE, v |-> 0]

\* the style of a feature: the neutral fill #999999 without a row, else the
\* colour of the decrease of its row (a decrease is never NaN)
style_function(mt, field, feature) ==
    LET key == PropGet(feature, field)
    IN IF HasRow(mt, key)
       THEN [key |-> key, grey |-> FALSE, v |-> row_by_key(mt, key).decrease]
       ELSE [key |-> key, grey |-> TRUE, v |-> 0]

\* the GeoJson layer: style_function on every feature, in feature order
build_folium_choropleth(mt, gj, field) ==
    [j \in 1..Len(gj.features) |-> style_function(mt, field, gj.features[j])]

\* mutant of FilterOnCopy: the rows are dropped from the frame itself
FilterInPlace(frame, filtered) == filtered

\* a frame after  d = frame.copy()  and the filters on d: the filters select
\* from the copy, the frame keeps its rows
FilterOnCopy(frame, filtered) == frame

\* the frame handed to _attach_geo_key after the call: geo_key is set on
\* mt = map_table.copy(), the argument keeps its columns
AttachArgAfter(mt, attached) == mt

\* the common filter of analysis 1 (df); an empty district selection keeps all
CommonFilter(df, usage, product, district) ==
    LET Keep(r) ==
            /\ r.usage \in usage
            /\ r.product \in product
            /\ (district # {} => r.district \in district)
    IN SelectSeq(df, Keep)

\* mutant of Tab2Input: the filtered frame is handed over
Tab2InputFiltered(frame, filtered) == filtered

\* the frame tab2 hands to build_map_table_cached: df_raw, not the filtered df
Tab2Input(frame, filtered) == frame

\* tab2 of analysis 1: the table shown, geo_key attached
\* (an empty table gets no geo_key: the tab only shows a notice)
Tab2MapTable(frame, usage, product, district, by, cy, gj, field) ==
    LET df == CommonFilter(frame, usage, product, district)
        mt == CachedCall(Tab2Input(frame, df), usage, product, by, cy)
    IN IF mt = <<>> THEN <<>>
       ELSE IF gj.exists /\ field # NoField THEN _attach_geo_key(mt, gj, field)
       ELSE [i \in 1..Len(mt) |-> WithGeoKey(mt[i], mt[i].district)]

\* tab2 of analysis 1: the frame the cached call returned, at the end of the
\* run; without a boundary property geo_key is set on this frame itself
Tab2PivotAfter(frame, usage, product, district, by, cy, gj, field) ==
    LET df == CommonFilter(frame, usage, product, district)
        mt == CachedCall(Tab2Input(frame, df), usage, product, by, cy)
    IN IF mt = <<>> THEN <<>>
       ELSE IF gj.exists /\ field # NoField
            THEN AttachArgAfter(mt, _attach_geo_key(mt, gj, field))
            ELSE [i \in 1..Len(mt) |-> WithGeoKey(mt[i], mt[i].district)]

\* tab2 of analysis 1: the map, drawn (with folium) when the table is not
\* empty and the boundary file gave a property; mt has geo_key attached
Tab2Choropleth(mt, gj, field) ==
    IF mt # <<>> /\ gj.exists /\ field # NoField
    THEN build_folium_choropleth(mt, gj, field)
    ELSE <<>>

-----------------------------------------------------------------------------
(* Analysis 1: the period summary (tab1) *)

\* a - b of two floats
RatSub(a, b) ==
    IF IsNaN(a) \/ IsNaN(b) THEN NaN
    ELSE Rat(a.num * b.den - b.num * a.den, a.den * b.den)

\* pd.to_datetime(text, format="%Y%m") does not raise: four digits of the
\* year and two of a month (the period texts of the model have six digits
\* or are no period)
IsYearMonth(p) ==
    Len(p) = 6 /\ IsIntText(p) /\ StrToInt(Slice(p, 4, 6)) \in 1..12

\* [COL_RANGE_CNT].sum() of a group of rows
SumCnt(g) == SumSeq([i \in 1..Len(g) |-> g[i].range_cnt])

\* the date of a record whose period text is a year and a month, as the
\* number YYYYMM: to_datetime reads the year and the month that load_data
\* has cut from the same text
DateOf(r) == r.year * 100 + r.month

\* df.groupby(period)[count].sum() with its date, sorted by the date
MonthSeries(df) ==
    LET dates == SortedSeq({DateOf(df[i]) : i \in 1..Len(df)})
        OfDate(d) ==
            LET Keep(r) == DateOf(r) = d
            IN SelectSeq(df, Keep)
    IN [j \in 1..Len(dates) |->
           [date |-> dates[j], range_cnt |-> SumCnt(OfDate(dates[j]))]]

\* Series.idxmax(): the position of the first of the largest values
IdxMax(vals) ==
    CHOOSE i \in 1..Len(vals) :
        /\ \A k \in 1..Len(vals) : vals[k] <= vals[i]
        /\ \A k \in 1..(i - 1) : vals[k] < vals[i]

\* year_month.groupby(year)[count].agg(sum, mean).sort_values(year): the
\* yearly total and the mean of the monthly sums of the year
Yearly(df) ==
    LET ys == SortedSeq({df[i].year : i \in 1..Len(df)})
        OfYear(y) ==
            LET Keep(r) == r.year = y
            IN SelectSeq(df, Keep)
        Row(y) ==
            LET g == OfYear(y)
                total == SumCnt(g)
            IN [year |-> y,
                total |-> total,
                avg |-> Rat(total, Cardinality({g[i].period : i \in 1..Len(g)}))]
    IN [j \in 1..Len(ys) |-> Row(ys[j])]

\* yearly[avg].diff(): the difference to the row before, NaN in the first row
PriorYearDelta(yearly, j) ==
    IF j = 1 THEN NaN ELSE RatSub(yearly[j].avg, yearly[j - 1].avg)

\* mutant of DeclinePct: the peak is compared with the last value
DeclinePctSwapped(last_val, peak_val) ==
    Rat((peak_val - last_val) * 100, last_val)

\* (last_val / peak_val - 1.0) * 100 of two python floats, peak_val not 0
DeclinePct(last_val, peak_val) == Rat((last_val - peak_val) * 100, peak_val)

\* what tab1 leaves when it is not drawn or ends before its summary
NoTab1(status) ==
    [status |-> status, yearly |-> <<>>, peak_year_y |-> 0,
     decline_pct_y |-> NaN, decline_pct_m |-> NaN]

\* tab1 on the filtered frame: ValueError of to_datetime on a period text
\* that is no year and month; the notice on an empty frame; ZeroDivisionError
\* of the float division by a yearly or monthly peak of 0; else the yearly
\* summary, the peak year and the two declines
Tab1(df) ==
    LET month_series == MonthSeries(df)
        yearly == Yearly(df)
        peak_idx_m == IdxMax([j \in 1..Len(month_series) |->
                                 month_series[j].range_cnt])
        peak_val_m == month_series[peak_idx_m].range_cnt
        last_val_m == month_series[Len(month_series)].range_cnt
        peak_idx_y == IdxMax([j \in 1..Len(yearly) |-> yearly[j].total])
        peak_val_y == yearly[peak_idx_y].total
        last_val_y == yearly[Len(yearly)].total
    IN IF \E i \in 1..Len(df) : ~IsYearMonth(df[i].period)
       THEN NoTab1("ValueError")
       ELSE IF df = <<>> THEN NoTab1("empty")
       ELSE IF peak_val_y = 0 \/ peak_val_m = 0 THEN NoTab1("ZeroDivisionError")
       ELSE [status |-> "ok",
             yearly |-> [j \in 1..Len(yearly) |->
                            [year |-> yearly[j].year,
                             total |-> yearly[j].total,
                             avg |-> yearly[j].avg,
                             delta |-> PriorYearDelta(yearly, j)]],
             peak_year_y |-> yearly[peak_idx_y].year,
             decline_pct_y |-> DeclinePct(last_val_y, peak_val_y),
             decline_pct_m |-> DeclinePct(last_val_m, peak_val_m)]

\* an exception in tab1 ends the run: tab2 is not reached
Tab1Raises(t) == t.status \in {"ValueError", "ZeroDivisionError"}

-----------------------------------------------------------------------------
(* Analysis 2: loading *)

NoUsageData == [exists |-> FALSE, cols |-> {}, rows |-> <<>>]

\* the base usage column of a row: MJ before m3, NaN without either column
UsageBase(usage_cols, r) ==
    IF "MJ" \in usage_cols THEN Rat(r.MJ, 1)
    ELSE IF "m3" \in usage_cols THEN Rat(r.m3, 1)
    ELSE NaN

KeyOf(r) == <<r.period, r.usage, r.product, r.district>>

\* sheet.groupby(key_cols, as_index=False)[count].sum()
SheetAgg(sheet) ==
    LET keys == {KeyOf(sheet[i]) : i \in 1..Len(sheet)}
        SameKey(k) ==
            LET Keep(r) == KeyOf(r) = k
            IN SelectSeq(sheet, Keep)
        Cnt(k) == [i \in 1..Len(SameKey(k)) |-> SameKey(k)[i].cnt]
    IN {[key |-> k, cnt |-> SumSeq(Cnt(k))] : k \in keys}

\* the column a left merge on key_cols gives a row of the gas sheet: the
\* aggregated count of its key, NaN without a partner
MergeLeft(r, agg) ==
    IF \E a \in agg : a.key = KeyOf(r)
    THEN Rat((CHOOSE a \in agg : a.key = KeyOf(r)).cnt, 1)
    ELSE NaN

\* the v3 file: gas-range sheet merged with the aggregated total-meter sheet
\* and connected-meter sheet, both filled with 0 where no partner exists
LoadV3(file) ==
    LET total_agg == SheetAgg(file.total)
        conn_agg == SheetAgg(file.conn)
    IN [exists |-> TRUE,
        cols |-> {"usage_base", "total", "conn"},
        rows |-> [i \in 1..Len(file.gas) |->
            [period |-> file.gas[i].period,
             year |-> PeriodYear(Strip(AsStr(IntCell(file.gas[i].period)))),
             month |-> PeriodMonth(Strip(AsStr(IntCell(file.gas[i].period)))),
             usage |-> file.gas[i].usage,
             product |-> file.gas[i].product,
             district |-> file.gas[i].district,
             range_cnt |-> _to_int_series(IntCell(file.gas[i].cnt)),
             usage_base |-> UsageBase(file.usage_cols, file.gas[i]),
             total |-> Rat(FillNa0(MergeLeft(file.gas[i], total_agg)), 1),
             conn |-> Rat(FillNa0(MergeLeft(file.gas[i], conn_agg)), 1)]]]

\* the connected-meter column the v2 branch gives every row
V2ConnColumn(r) == NaN

\* the v2 file: one sheet; the total-meter column is NaN when the sheet has
\* none, and the connected-meter column is set to NaN
LoadV2(file) ==
    [exists |-> TRUE,
     cols |-> {"usage_base", "total", "conn"},
     rows |-> [i \in 1..Len(file.gas) |->
         [period |-> file.gas[i].period,
          year |-> PeriodYear(Strip(AsStr(IntCell(file.gas[i].period)))),
          month |-> PeriodMonth(Strip(AsStr(IntCell(file.gas[i].period)))),
          usage |-> file.gas[i].usage,
          product |-> file.gas[i].product,
          district |-> file.gas[i].district,
          range_cnt |-> _to_int_series(IntCell(file.gas[i].cnt)),
          usage_base |-> UsageBase(file.usage_cols, file.gas[i]),
          total |-> IF file.has_total
                    THEN Rat(_to_int_series(IntCell(file.gas[i].total)), 1)
                    ELSE NaN,
          conn |-> V2ConnColumn(file.gas[i])]]]

load_data_with_usage(file) ==
    IF file.ver = "v3" THEN LoadV3(file)
    ELSE IF file.ver = "v2" THEN LoadV2(file)
    ELSE NoUsageData

-----------------------------------------------------------------------------
(* Analysis 2: estimation *)

\* the common filter of analysis 2; an empty district selection keeps all
FilterUsageData(rows, usage, product, district) ==
    LET Keep(r) ==
            /\ r.usage \in usage
            /\ r.product \in product
            /\ (district # {} => r.district \in district)
    IN SelectSeq(rows, Keep)

RECURSIVE SumSkipNa(_)
\* pandas sum: NaN cells are skipped, the sum of no cell is 0
SumSkipNa(s) ==
    IF s = <<>> THEN 0
    ELSE (IF IsNaN(Head(s)) THEN 0 ELSE Head(s).num) + SumSkipNa(Tail(s))

\* the named aggregations of one group of rows
AggSums(cols, g) ==
    [cnt_sum |-> SumSeq([i \in 1..Len(g) |-> g[i].range_cnt]),
     total_sum |-> SumSkipNa([i \in 1..Len(g) |-> g[i].total]),
     usage_sum |-> SumSkipNa([i \in 1..Len(g) |-> g[i].usage_base]),
     has_conn_sum |-> "conn" \in cols,
     conn_sum |-> IF "conn" \in cols
                  THEN SumSkipNa([i \in 1..Len(g) |-> g[i].conn])
                  ELSE 0]

\* total minus connected meters when the aggregate has that column, else
\* total minus gas ranges
BaseInduction(a) ==
    IF a.has_conn_sum
    THEN a.total_sum - a.conn_sum
    ELSE a.total_sum - a.cnt_sum

\* mutant of ClipLower0: no clip
ClipNone(x) == x

\* Series.clip(lower=0) on integers
ClipLower0(x) == IF x < 0 THEN 0 ELSE x

\* mutant of ClipLower0Rat: no clip
ClipNoneRat(x) == x

\* Series.clip(lower=0) on floats: NaN stays NaN
ClipLower0Rat(x) == IF RatLt0(x) THEN Rat(0, 1) ELSE x

Induction(a) == ClipLower0(BaseInduction(a))

\* np.where(total > 0, induction / total * 100, np.nan).round(1), in tenths
InductionShare(a) ==
    IF a.total_sum > 0
    THEN Rat(RoundHalfEven(Induction(a) * 1000, a.total_sum), 10)
    ELSE NaN

\* mutant of AvgUsagePerRange: the usage is divided by the meters left after
\* the estimated induction households are taken out
AvgUsagePerGasMeter(a) ==
    IF a.total_sum - Induction(a) > 0
    THEN Rat(a.usage_sum, a.total_sum - Induction(a))
    ELSE NaN

\* np.where(cnt_sum > 0, usage_sum / cnt_sum, np.nan)
AvgUsagePerRange(a) ==
    IF a.cnt_sum > 0 THEN Rat(a.usage_sum, a.cnt_sum) ELSE NaN

\* average * total_sum
AllGasUsage(a) ==
    LET avg == AvgUsagePerRange(a)
    IN IF IsNaN(avg) THEN NaN ELSE Rat(avg.num * a.total_sum, avg.den)

\* (all-gas usage - usage_sum).clip(lower=0)
UsageDecline(a) ==
    LET h == AllGasUsage(a)
    IN IF IsNaN(h) THEN NaN
       ELSE ClipLower0Rat(Rat(h.num - a.usage_sum * h.den, h.den))

\* np.where(usage_sum > 0, decline / usage_sum * 100, np.nan).round(1)
UsageDeclineRate(a) ==
    LET dcl == UsageDecline(a)
    IN IF a.usage_sum > 0 /\ ~IsNaN(dcl)
       THEN Rat(RoundHalfEven(dcl.num * 1000, dcl.den * a.usage_sum), 10)
       ELSE NaN

\* one row of an estimation table: the key, the sums and the derived columns
EstRow(key, a) ==
    [key |-> key,
     cnt_sum |-> a.cnt_sum,
     total_sum |-> a.total_sum,
     usage_sum |-> a.usage_sum,
     has_conn_sum |-> a.has_conn_sum,
     conn_sum |-> a.conn_sum,
     induction |-> Induction(a),
     share |-> InductionShare(a),
     avg_usage |-> AvgUsagePerRange(a),
     all_gas_usage |-> AllGasUsage(a),
     decline |-> UsageDecline(a),
     decline_rate |-> UsageDeclineRate(a)]

\* one row of the district comparison: no usage columns
HouseRow(key, a) ==
    [key |-> key,
     cnt_sum |-> a.cnt_sum,
     total_sum |-> a.total_sum,
     has_conn_sum |-> a.has_conn_sum,
     conn_sum |-> a.conn_sum,
     induction |-> Induction(a),
     share |-> InductionShare(a)]

\* dfu[dfu[year] == y], also the group of year y
RowsOfYear(dfu, y) ==
    LET Keep(r) == r.year = y
    IN SelectSeq(dfu, Keep)

\* the group of district d
RowsOfDistrict(dfu, d) ==
    LET Keep(r) == r.district = d
    IN SelectSeq(dfu, Keep)

\* the group of year, district and usage k
RowsOfYearDistrictUsage(dfu, k) ==
    LET Keep(r) == <<r.year, r.district, r.usage>> = k
    IN SelectSeq(dfu, Keep)

\* tab a: dfu.groupby(year).agg(...).sort_values(year) and the estimation
YearAgg(cols, dfu) ==
    LET ys == SortedSeq({dfu[i].year : i \in 1..Len(dfu)})
    IN [j \in 1..Len(ys) |-> EstRow(ys[j], AggSums(cols, RowsOfYear(dfu, ys[j])))]

\* tab a, district comparison of the selected year (row order not modelled)
GuHouse(cols, dfu, y) ==
    LET dfu_year == RowsOfYear(dfu, y)
    IN {HouseRow(d, AggSums(cols, RowsOfDistrict(dfu_year, d))) :
          d \in {dfu_year[i].district : i \in 1..Len(dfu_year)}}

\* tab b: dfu.groupby([year, district, usage]) and the estimation (row order
\* not modelled)
Grp(cols, dfu) ==
    {EstRow(k, AggSums(cols, RowsOfYearDistrictUsage(dfu, k))) :
        k \in {<<dfu[i].year, dfu[i].district, dfu[i].usage>> : i \in 1..Len(dfu)}}

\* tab b: grp[grp[year] == y].groupby(district) with the sums of the counts,
\* of the usage and of the estimated induction households of the rows (the
\* sum of the declines and its rate are not modelled; row order not modelled)
GuAgg(grp_rows, y) ==
    LET grp_year == {r \in grp_rows : r.key[1] = y}
        OfDistrict(d) == SetToSeq({r \in grp_year : r.key[2] = d})
        Sum(d, Col(_)) == SumSeq([i \in 1..Len(OfDistrict(d)) |-> Col(OfDistrict(d)[i])])
        CntSum(r) == r.cnt_sum
        TotalSum(r) == r.total_sum
        UsageSum(r) == r.usage_sum
        InductionOf(r) == r.induction
    IN {[key |-> d,
         cnt_sum |-> Sum(d, CntSum),
         total_sum |-> Sum(d, TotalSum),
         usage_sum |-> Sum(d, UsageSum),
         induction |-> Sum(d, InductionOf)] : d \in {r.key[2] : r \in grp_year}}

-----------------------------------------------------------------------------
(* One script run *)

\* the filtered frame of analysis 2
Dfu(us, ps, ds) == FilterUsageData(df_usage_raw.rows, us, ps, ds)

\* the years offered by the two selectboxes of analysis 2
YearOptions(us, ps, ds) ==
    SortedSeq({Dfu(us, ps, ds)[i].year : i \in 1..Len(Dfu(us, ps, ds))})

\* analysis 2 shows its tabs: the file was found and the filter keeps rows
Analysis2Shown(mode, us, ps, ds) ==
    mode = 2 /\ df_usage_raw.exists /\ Dfu(us, ps, ds) # <<>>

\* a selectbox keeps a selection that is still offered and otherwise shows
\* its default, the last option; 0 when it is not rendered
Selected(shown, options, requested) ==
    IF ~shown THEN 0
    ELSE IF requested \in Range(options) THEN requested
    ELSE options[Len(options)]

\* the script gets past the loading and the sidebar: load_data returned
\* records (with no record the slider's default years[0] raises IndexError)
ScriptRuns == load_status = "ok" /\ df_raw # <<>>

\* the run of the script with the given widget values: every table of the
\* selected analysis is computed anew, the tables of the other one do not exist,
\* nor do those of tab2 when tab1 raised;
\* the loaders are cached and return the frames and the boundary of the first run
Rerun(mode, by, cy, us, ps, ds, ygu, ys) ==
    LET shown == Analysis2Shown(mode, us, ps, ds)
        dfu == Dfu(us, ps, ds)
        opts == YearOptions(us, ps, ds)
        tab2 == mode = 1 /\ ~Tab1Raises(tab1')
    IN /\ ScriptRuns
       /\ analysis_mode' = mode
       /\ base_year' = by
       /\ comp_year' = cy
       /\ usage_sel' = us
       /\ product_sel' = ps
       /\ district_sel' = ds
       /\ year_sel_gu' = Selected(shown, opts, ygu)
       /\ year_sel' = Selected(shown, opts, ys)
       /\ tab1' = IF mode = 1
                  THEN Tab1(CommonFilter(df_raw, us, ps, ds))
                  ELSE NoTab1("none")
       /\ pivot_table' = IF tab2
                         THEN Tab2PivotAfter(df_raw, us, ps, ds, by, cy, geojson,
                                             GEO_NAME_FIELD)
                         ELSE <<>>
       /\ map_table' = IF tab2
                       THEN Tab2MapTable(df_raw, us, ps, ds, by, cy, geojson, GEO_NAME_FIELD)
                       ELSE <<>>
       /\ choropleth' = IF tab2
                        THEN Tab2Choropleth(map_table', geojson, GEO_NAME_FIELD)
                        ELSE <<>>
       /\ year_agg' = IF shown THEN YearAgg(df_usage_raw.cols, dfu) ELSE <<>>
       /\ gu_house' = IF shown
                      THEN GuHouse(df_usage_raw.cols, dfu, Selected(shown, opts, ygu))
                      ELSE {}
       /\ grp' = IF shown THEN Grp(df_usage_raw.cols, dfu) ELSE {}
       /\ gu_agg' = IF shown
                    THEN GuAgg(Grp(df_usage_raw.cols, dfu), Selected(shown, opts, ys))
                    ELSE {}
       /\ cache_entry' =
              IF tab2
              THEN CacheAfterCall(
                       Tab2Input(df_raw, CommonFilter(df_raw, us, ps, ds)),
                       us, ps, by, cy)
              ELSE cache_entry
       /\ UNCHANGED <<geojson, GEO_NAME_FIELD>>
       /\ df_raw' = FilterOnCopy(df_raw, CommonFilter(df_raw, us, ps, ds))
       /\ df_usage_raw' =
              IF mode = 2 /\ df_usage_raw.exists
              THEN [df_usage_raw EXCEPT !.rows = FilterOnCopy(@, dfu)]
              ELSE df_usage_raw
       /\ UNCHANGED <<raw, load_status, usage_raw, cache_key>>

-----------------------------------------------------------------------------
(* Input files *)

Periods == {201501, 202412}

Usages == {"dandok", "gongdong"}

Products == {"chwisa"}

\* rows of the analysis-1 sheet
SheetRows ==
    [period : Periods, usage : Usages, product : Products,
     district : {JungGu, ChilgokGun}, cnt : {400, 1000}]

\* gas ranges and connected meters of a row of the analysis-2 file, against
\* 1000 meters in total: no gas range, as many gas ranges as connected meters,
\* and more gas ranges and connected meters than meters
RangesAndConnected == {<<0, 700>>, <<700, 700>>, <<1200, 1100>>}

\* rows of the analysis-2 file: a gas-range row with the total-meter and the
\* connected-meter count of its key
UsageRows ==
    {[period |-> p, usage |-> u, product |-> "chwisa", district |-> JungGu,
      cnt |-> c[1], MJ |-> 21, m3 |-> 5, total |-> 1000, conn |-> c[2]] :
        p \in Periods, u \in Usages, c \in RangesAndConnected}

\* an order of the rows of a sheet; sheets are taken up to the order of their
\* rows, on which no table depends
RowRank(r) ==
    LET u == IF r.usage = "dandok" THEN 0 ELSE 1
        d == IF r.district = JungGu THEN 0 ELSE 1
    IN (((r.period - 201500) * 2 + u) * 2 + d) * 2000 + r.cnt

UsageRowRank(r) == RowRank(r) * 2 + (IF r.conn = 700 THEN 0 ELSE 1)

Sheets(n) ==
    UNION {{s \in [1..k -> SheetRows] :
              \A i \in 1..(k - 1) : RowRank(s[i]) <= RowRank(s[i + 1])} :
           k \in 1..n}

GasSheets(n) ==
    UNION {{s \in [1..k -> UsageRows] :
              \A i \in 1..(k - 1) : UsageRowRank(s[i]) <= UsageRowRank(s[i + 1])} :
           k \in 1..n}

\* the analysis-2 file of a version whose sheets hold the given rows: in v3
\* the total-meter and connected-meter sheets have one row per gas-range row
UsageFile(ver, rows) ==
    [ver |-> ver,
     usage_cols |-> {"MJ"},
     has_total |-> TRUE,
     gas |-> rows,
     total |-> IF ver = "v3"
               THEN [i \in 1..Len(rows) |->
                       [period |-> rows[i].period, usage |-> rows[i].usage,
                        product |-> rows[i].product, district |-> rows[i].district,
                        cnt |-> rows[i].total]]
               ELSE <<>>,
     conn |-> IF ver = "v3"
              THEN [i \in 1..Len(rows) |->
                      [period |-> rows[i].period, usage |-> rows[i].usage,
                       product |-> rows[i].product, district |-> rows[i].district,
                       cnt |-> rows[i].conn]]
              ELSE <<>>]

UsageFiles(n) == {UsageFile(ver, rows) : ver \in {"v2", "v3"}, rows \in GasSheets(n)}

\* files of one row whose gas-range sheet has no consumption column
NoConsumptionFiles ==
    {[UsageFile(ver, rows) EXCEPT !.usage_cols = {}] :
        ver \in {"v2", "v3"}, rows \in GasSheets(1)}

NoUsageFile ==
    [ver |-> "none", usage_cols |-> {}, has_total |-> FALSE,
     gas |-> <<>>, total |-> <<>>, conn |-> <<>>]

\* values of the boundary properties
GeoValues ==
    {JungGu, JungGu \o <<" ">>, DongGu, SeoGu, DalseoGu, <<"gyeong", "san">>}

\* features with the properties code and name, in this order: the district
\* name under name, and two features with a district name under code
GeoFeatures ==
    {<<<<"code", <<"27">>>>, <<"name", v>>>> : v \in GeoValues} \cup
    {<<<<"code", JungGu>>, <<"name", v>>>> : v \in {JungGu, <<"27">>}}

BoundaryFiles(n) ==
    {[exists |-> FALSE, features |-> <<>>]} \cup
    UNION {{[exists |-> TRUE, features |-> fs] : fs \in [1..k -> GeoFeatures]} :
           k \in 0..n}

\* boundary files with one feature per target district, the district name
\* under name: in the order of TARGET_SIGUNGU and in the reverse order
CompleteBoundaryFiles ==
    LET n == Len(TARGET_SIGUNGU)
        Feature(d) == <<<<"code", <<"27">>>>, <<"name", d>>>>
    IN {[exists |-> TRUE,
         features |-> [i \in 1..n |-> Feature(TARGET_SIGUNGU[i])]],
        [exists |-> TRUE,
         features |-> [i \in 1..n |-> Feature(TARGET_SIGUNGU[n + 1 - i])]]}

\* the header row and a title row of the analysis-1 sheet
HeaderRow(first) ==
    [first |-> StrCell(first), usage |-> "yongdo", product |-> "sangpum",
     district |-> <<"si", "gun", "gu">>, cnt |-> StrCell(<<"su">>)]

TitleRow ==
    [first |-> StrCell(<<"je", "mok">>), usage |-> NoText, product |-> NoText,
     district |-> <<>>, cnt |-> NanCell]

BlankRow ==
    [first |-> NanCell, usage |-> NoText, product |-> NoText,
     district |-> <<>>, cnt |-> NanCell]

\* a data row with the given cells of the period and the count column
DataRow(first, usage, product, district, cnt) ==
    [first |-> first, usage |-> usage, product |-> product,
     district |-> district, cnt |-> cnt]

\* the raw sheet of clean rows: the header row, then a row of integer cells
\* for each
RawOf(sheet) ==
    <<HeaderRow(COL_YEAR_MONTH)>> \o
    [i \in 1..Len(sheet) |->
        DataRow(IntCell(sheet[i].period), sheet[i].usage, sheet[i].product,
                sheet[i].district, IntCell(sheet[i].cnt))]

\* period cells: an integer, a float, a text with blanks around the code,
\* a text with a letter among its first four characters
PeriodCells ==
    {IntCell(201501), FloatCell(201501),
     StrCell(<<" ", "2", "0", "2", "4", "1", "2", " ">>),
     StrCell(<<"2", "0", "1", "x", "0", "1">>)}

\* count cells: an integer, a text with a thousands separator, a text that
\* is no number, an empty cell, a negative integer
CountCells ==
    {IntCell(400), StrCell(<<"1", ",", "2", "3", "4">>),
     StrCell(<<"a", "b", "c">>), NanCell, IntCell(-5)}

\* data rows of the raw sheets: every period cell and every count cell
RawDataRows ==
    {DataRow(p, "dandok", "chwisa", JungGu, IntCell(400)) : p \in PeriodCells}
    \cup {DataRow(IntCell(202412), "gongdong", "chwisa", JungGu \o <<" ">>, c) :
             c \in CountCells}
    \cup {BlankRow}

\* what stands above the data rows: nothing, a header row, a title row and
\* a header row with blanks around the key, two header rows
SheetHeads ==
    {<<>>,
     <<TitleRow>>,
     <<HeaderRow(COL_YEAR_MONTH)>>,
     <<TitleRow, HeaderRow(<<" ">> \o COL_YEAR_MONTH \o <<" ">>)>>,
     <<HeaderRow(COL_YEAR_MONTH), HeaderRow(COL_YEAR_MONTH)>>}

\* raw sheets: a head and up to n data rows
RawSheets(n) ==
    {head \o rows : head \in SheetHeads,
                    rows \in UNION {[1..k -> RawDataRows] : k \in 1..n}}

\* the files of the runs in which one input varies and the others are fixed
OneSheet ==
    <<[period |-> 201501, usage |-> "dandok", product |-> "chwisa",
       district |-> JungGu, cnt |-> 1000],
      [period |-> 202412, usage |-> "gongdong", product |-> "chwisa",
       district |-> JungGu, cnt |-> 400]>>

OneUsageFile ==
    UsageFile("v3",
        <<[period |-> 201501, usage |-> "dandok", product |-> "chwisa",
           district |-> JungGu, cnt |-> 700, MJ |-> 21, m3 |-> 5,
           total |-> 1000, conn |-> 700],
          [period |-> 202412, usage |-> "gongdong", product |-> "chwisa",
           district |-> JungGu, cnt |-> 700, MJ |-> 21, m3 |-> 5,
           total |-> 1000, conn |-> 1100]>>)

OneBoundaryFile ==
    [exists |-> TRUE,
     features |-> << <<<<"code", <<"27">>>>, <<"name", DalseoGu>>>>,
                     <<<<"code", <<"27">>>>, <<"name", SeoGu>>>> >>]

-----------------------------------------------------------------------------
(* Initial states: the first run, with the default widget values *)

\* the first run past the loading of the analysis-1 sheet; tab2 is reached
\* when tab1 did not raise
FirstRun(usage_file, boundary_file, followed) ==
    /\ analysis_mode = 1
    /\ cache_key = followed
    /\ tab1 = Tab1(CommonFilter(df_raw, usage_list, product_list, district_list))
    /\ cache_entry =
          IF /\ ~Tab1Raises(tab1)
             /\ CacheKey(Tab2Input(df_raw, CommonFilter(df_raw, usage_list,
                                                        product_list, district_list)),
                         usage_list, product_list, years[1], years[Len(years)])
                   = followed
          THEN <<build_map_table_cached(
                     Tab2Input(df_raw, CommonFilter(df_raw, usage_list,
                                                    product_list, district_list)),
                     usage_list, product_list, years[1], years[Len(years)])>>
          ELSE <<>>
    /\ df_usage_raw = load_data_with_usage(usage_file)
    /\ geojson = load_geojson(boundary_file)[1]
    /\ GEO_NAME_FIELD = load_geojson(boundary_file)[2]
    /\ base_year = years[1]
    /\ comp_year = years[Len(years)]
    /\ usage_sel = usage_list
    /\ product_sel = product_list
    /\ district_sel = district_list
    /\ year_sel_gu = 0
    /\ year_sel = 0
    /\ pivot_table =
          LET mt == IF Tab1Raises(tab1) THEN <<>> ELSE build_map_table_cached(
                        Tab2Input(df_raw, CommonFilter(df_raw, usage_list,
                                                       product_list, district_list)),
                        usage_list, product_list, years[1], years[Len(years)])
          IN IF mt = <<>> THEN <<>>
             ELSE IF geojson.exists /\ GEO_NAME_FIELD # NoField
                  THEN AttachArgAfter(mt, _attach_geo_key(mt, geojson, GEO_NAME_FIELD))
                  ELSE [i \in 1..Len(mt) |-> WithGeoKey(mt[i], mt[i].district)]
    /\ map_table =
          LET mt == IF Tab1Raises(tab1) THEN <<>> ELSE build_map_table_cached(
                        Tab2Input(df_raw, CommonFilter(df_raw, usage_list,
                                                       product_list, district_list)),
                        usage_list, product_list, years[1], years[Len(years)])
          IN IF mt = <<>> THEN <<>>
             ELSE IF geojson.exists /\ GEO_NAME_FIELD # NoField
                  THEN _attach_geo_key(mt, geojson, GEO_NAME_FIELD)
                  ELSE [i \in 1..Len(mt) |-> WithGeoKey(mt[i], mt[i].district)]
    /\ choropleth = Tab2Choropleth(map_table, geojson, GEO_NAME_FIELD)
    /\ year_agg = <<>>
    /\ gu_house = {}
    /\ grp = {}
    /\ gu_agg = {}

\* the first run ended in load_data or at the slider: no other loader was
\* called, no widget was rendered and no table was made
Halted(followed) ==
    /\ analysis_mode = 0
    /\ cache_key = followed
    /\ cache_entry = <<>>
    /\ df_usage_raw = NoUsageData
    /\ geojson = NoGeojson
    /\ GEO_NAME_FIELD = NoField
    /\ base_year = 0
    /\ comp_year = 0
    /\ usage_sel = {}
    /\ product_sel = {}
    /\ district_sel = {}
    /\ year_sel_gu = 0
    /\ year_sel = 0
    /\ tab1 = NoTab1("none")
    /\ pivot_table = <<>>
    /\ map_table = <<>>
    /\ choropleth = <<>>
    /\ year_agg = <<>>
    /\ gu_house = {}
    /\ grp = {}
    /\ gu_agg = {}

InitWith(raw_sheet, usage_file, boundary_file, followed) ==
    /\ raw = raw_sheet
    /\ load_status = load_data(raw_sheet).status
    /\ df_raw = load_data(raw_sheet).df
    /\ usage_raw = usage_file
    /\ IF ScriptRuns
       THEN FirstRun(usage_file, boundary_file, followed)
       ELSE Halted(followed)

\* the analysis-1 sheet varies
Init ==
    \E sheet \in Sheets(MaxRows) :
        InitWith(RawOf(sheet), OneUsageFile, OneBoundaryFile, NoKey)

\* the analysis-2 file varies
InitEst ==
    \E f \in UsageFiles(MaxUsageRows) \cup NoConsumptionFiles \cup {NoUsageFile} :
        InitWith(RawOf(OneSheet), f, OneBoundaryFile, NoKey)

\* the boundary file varies
InitGeo ==
    \E b \in BoundaryFiles(MaxFeatures) \cup CompleteBoundaryFiles : InitWith(RawOf(OneSheet), OneUsageFile, b, NoKey)

\* the keys a call of build_map_table_cached can have on OneSheet
CacheKeys ==
    {CacheKey(load_data(RawOf(OneSheet)).df, us, ps, by, cy) :
        us \in SUBSET Usages, ps \in SUBSET Products,
        by \in {2015, 2024}, cy \in {2015, 2024}}

\* the raw analysis-1 sheet varies
InitLoad ==
    \E raw_sheet \in RawSheets(MaxRawRows) :
        InitWith(raw_sheet, OneUsageFile, OneBoundaryFile, NoKey)

\* the followed cache entry varies
InitCache ==
    \E k \in CacheKeys :
        InitWith(RawOf(OneSheet), OneUsageFile, OneBoundaryFile, k)

-----------------------------------------------------------------------------
(* Actions: a widget change and the run it triggers *)

SelectAnalysisMode ==
    \E mode \in {1, 2} :
        /\ mode # analysis_mode
        /\ Rerun(mode, base_year, comp_year, usage_sel, product_sel,
                 district_sel, year_sel_gu, year_sel)

SlideYears ==
    \E by \in Range(years), cy \in Range(years) :
        /\ by <= cy
        /\ <<by, cy>> # <<base_year, comp_year>>
        /\ Rerun(analysis_mode, by, cy, usage_sel, product_sel,
                 district_sel, year_sel_gu, year_sel)

SelectUsage ==
    \E us \in SUBSET usage_list :
        /\ us # usage_sel
        /\ Rerun(analysis_mode, base_year, comp_year, us, product_sel,
                 district_sel, year_sel_gu, year_sel)

SelectProduct ==
    \E ps \in SUBSET product_list :
        /\ ps # product_sel
        /\ Rerun(analysis_mode, base_year, comp_year, usage_sel, ps,
                 district_sel, year_sel_gu, year_sel)

SelectDistrict ==
    \E ds \in SUBSET district_list :
        /\ ds # district_sel
        /\ Rerun(analysis_mode, base_year, comp_year, usage_sel, product_sel,
                 ds, year_sel_gu, year_sel)

SelectYearGu ==
    /\ year_sel_gu # 0
    /\ \E y \in Range(YearOptions(usage_sel, product_sel, district_sel)) :
        /\ y # year_sel_gu
        /\ Rerun(analysis_mode, base_year, comp_year, usage_sel, product_sel,
                 district_sel, y, year_sel)

SelectYear ==
    /\ year_sel # 0
    /\ \E y \in Range(YearOptions(usage_sel, product_sel, district_sel)) :
        /\ y # year_sel
        /\ Rerun(analysis_mode, base_year, comp_year, usage_sel, product_sel,
                 district_sel, year_sel_gu, y)

Next ==
    \/ SelectAnalysisMode
    \/ SlideYears
    \/ SelectUsage
    \/ SelectProduct
    \/ SelectDistrict
    \/ SelectYearGu
    \/ SelectYear

Spec == Init /\ [][Next]_vars

SpecEst == InitEst /\ [][Next]_vars

SpecGeo == InitGeo /\ [][Next]_vars

SpecCache == InitCache /\ [][Next]_vars

SpecLoad == InitLoad /\ [][Next]_vars

-----------------------------------------------------------------------------
(* Claims on the district decrease pivot *)

RECURSIVE SumCntAt(_, _)
\* the sum of the gas-range counts of the rows of df at the indices idx
SumCntAt(df, idx) ==
    IF idx = {} THEN 0
    ELSE LET i == CHOOSE i \in idx : TRUE
         IN df[i].range_cnt + SumCntAt(df, idx \ {i})

\* the records of df_raw that pass the usage and product selection
Selected1 ==
    {i \in 1..Len(df_raw) :
        df_raw[i].usage \in usage_sel /\ df_raw[i].product \in product_sel}

\* appliance_count summed over (d, y) after the usage/product filter
RecordedCount(d, y) ==
    SumCntAt(df_raw, {i \in Selected1 : df_raw[i].district = d /\ df_raw[i].year = y})

\* some record of a target district in the base or compare year passes the
\* usage/product filter
PivotHasData ==
    \E i \in Selected1 :
        /\ df_raw[i].district \in Range(TARGET_SIGUNGU)
        /\ df_raw[i].year \in {base_year, comp_year}

\* C1: in the pivot, every district's base and compare values are the sums of
\* the gas-range counts over (district, year) after the usage/product filter,
\* its decrease amount is base value minus compare value, and every target
\* district has its row as soon as one of the two years has a record; a year
\* without records counts 0.  The scenario (2015: 1000, 2024: 400) gives 600
\* and 60.0 %.
C1_DecreaseAmount ==
    analysis_mode = 1 =>
        /\ \A i \in 1..Len(map_table) :
            LET r == map_table[i]
            IN /\ r.base_val = RecordedCount(r.district, base_year)
               /\ r.comp_val = RecordedCount(r.district, comp_year)
               /\ r.decrease = RecordedCount(r.district, base_year)
                               - RecordedCount(r.district, comp_year)
               /\ (r.base_val = 1000 /\ r.comp_val = 400) =>
                     (r.decrease = 600 /\ r.rate = Rat(600, 10))
        /\ PivotHasData =>
            \A d \in Range(TARGET_SIGUNGU) :
                \E i \in 1..Len(map_table) : map_table[i].district = d

\* the compare year has no record at all after the filter, the base year has
C1_Witness ==
    /\ analysis_mode = 1
    /\ base_year # comp_year
    /\ \A i \in Selected1 : df_raw[i].year # comp_year
    /\ \E i \in 1..Len(map_table) :
        /\ map_table[i].base_val = 1000
        /\ map_table[i].comp_val = 0
        /\ map_table[i].decrease = 1000

\* C2 as stated: for every record set, selection and pair of years the pivot
\* has exactly the target districts, one row each, in the order of the list.
C2_Original ==
    analysis_mode = 1 =>
        [i \in 1..Len(map_table) |-> map_table[i].district] = TARGET_SIGUNGU

\* C2 amended: the pivot has exactly the target districts, one row each, in
\* the order of the list, whenever a record of a target district in the base
\* or compare year passes the usage/product filter; otherwise it has no row.
C2_TargetRows ==
    analysis_mode = 1 =>
        IF PivotHasData
        THEN [i \in 1..Len(map_table) |-> map_table[i].district] = TARGET_SIGUNGU
        ELSE map_table = <<>>

\* the data has a district outside the list, the district selection leaves
\* out the only target district of the data, and the pivot is the full list
C2_Witness ==
    /\ analysis_mode = 1
    /\ ChilgokGun \in district_list
    /\ district_sel = {ChilgokGun}
    /\ Len(map_table) = Len(TARGET_SIGUNGU)
    /\ \E i \in 1..Len(map_table) :
        map_table[i].district = JungGu /\ map_table[i].base_val > 0

\* C5: two consecutive runs of tab2 that differ only in the district
\* selection (same records, usage, product, base and compare year) show the
\* same pivot.
C5_DistrictFilterIgnored ==
    [][(/\ analysis_mode = 1
        /\ analysis_mode' = 1
        /\ df_raw' = df_raw
        /\ usage_sel' = usage_sel
        /\ product_sel' = product_sel
        /\ base_year' = base_year
        /\ comp_year' = comp_year)
       => map_table' = map_table]_vars

\* the district selection was changed to exclude a district the pivot has
\* counts for
C5_Witness ==
    /\ analysis_mode = 1
    /\ district_sel # district_list
    /\ \E i \in 1..Len(map_table) :
        /\ map_table[i].district \notin district_sel
        /\ map_table[i].decrease # 0

\* C6: the decrease rate of every row whose base value is 0 is NaN.
C6_RateUndefinedOnZeroBase ==
    analysis_mode = 1 =>
        \A i \in 1..Len(map_table) :
            map_table[i].base_val = 0 => IsNaN(map_table[i].rate)

\* a row with base value 0 and a decrease that is not 0
C6_Witness ==
    /\ analysis_mode = 1
    /\ \E i \in 1..Len(map_table) :
        /\ map_table[i].base_val = 0
        /\ map_table[i].decrease < 0
        /\ IsNaN(map_table[i].rate)

\* a target district without any record in the source
Unrecorded(d) == \A i \in 1..Len(df_raw) : df_raw[i].district # d

\* the row of zeros of district d
IsZeroRow(r, d) ==
    /\ r.district = d
    /\ r.base_val = 0
    /\ r.comp_val = 0
    /\ r.decrease = 0
    /\ IsNaN(r.rate)

\* C7 as stated: a target district without any record always has its pivot
\* row, with base value 0, compare value 0, decrease 0 and no rate.
C7_Original ==
    analysis_mode = 1 =>
        \A d \in Range(TARGET_SIGUNGU) :
            Unrecorded(d) =>
                \E i \in 1..Len(map_table) : IsZeroRow(map_table[i], d)

\* C7 amended: whenever the pivot is not empty (a record of a target district
\* in the base or compare year passes the usage/product filter), a target
\* district without any record has exactly one row, with base value 0,
\* compare value 0, decrease 0 and no rate, next to the rows of all other
\* target districts.
C7_UnrecordedDistrictRow ==
    (analysis_mode = 1 /\ PivotHasData) =>
        /\ Len(map_table) = Len(TARGET_SIGUNGU)
        /\ \A d \in Range(TARGET_SIGUNGU) :
            Unrecorded(d) =>
                /\ Cardinality({i \in 1..Len(map_table) :
                                  map_table[i].district = d}) = 1
                /\ \A i \in 1..Len(map_table) :
                    map_table[i].district = d => IsZeroRow(map_table[i], d)

\* Dong-gu has no record and a row of zeros, Jung-gu has counts
C7_Witness ==
    /\ analysis_mode = 1
    /\ Unrecorded(DongGu)
    /\ \E i \in 1..Len(map_table) : IsZeroRow(map_table[i], DongGu)
    /\ \E i \in 1..Len(map_table) :
        map_table[i].district = JungGu /\ map_table[i].base_val > 0

-----------------------------------------------------------------------------
(* Claims on geo_key *)

\* C4 as stated: a district whose name equals the value of some boundary
\* feature gets exactly that value as geo_key, whatever the feature order.
C4_Original ==
    (analysis_mode = 1 /\ geojson.exists /\ GEO_NAME_FIELD # NoField) =>
        \A i \in 1..Len(map_table) :
            (\E j \in 1..Len(geojson.features) :
                PropGet(geojson.features[j], GEO_NAME_FIELD) = map_table[i].district)
            => map_table[i].geo_key = map_table[i].district

-----------------------------------------------------------------------------
(* Claims on the estimation tables *)

Max0(x) == IF x > 0 THEN x ELSE 0

\* C3 as stated: when no row has a connected-meter figure (the v2 file), the
\* estimated induction households of a year are max(total meters - gas
\* ranges, 0); total 1000 with 700 gas ranges gives 300.
C3_Original ==
    (/\ analysis_mode = 2
     /\ \A i \in 1..Len(df_usage_raw.rows) : IsNaN(df_usage_raw.rows[i].conn))
    => \A j \in 1..Len(year_agg) :
          year_agg[j].induction = Max0(year_agg[j].total_sum - year_agg[j].cnt_sum)

\* C8: the estimated induction households are never negative in any of the
\* three estimation tables.
C8_InductionNonNegative ==
    analysis_mode = 2 =>
        /\ \A j \in 1..Len(year_agg) : year_agg[j].induction >= 0
        /\ \A r \in gu_house : r.induction >= 0
        /\ \A r \in grp : r.induction >= 0

\* every table has a row whose connected meters exceed its total meters
C8_Witness ==
    /\ analysis_mode = 2
    /\ \E j \in 1..Len(year_agg) :
        year_agg[j].conn_sum > year_agg[j].total_sum /\ year_agg[j].induction = 0
    /\ \E r \in gu_house : r.conn_sum > r.total_sum /\ r.induction = 0
    /\ \E r \in grp : r.conn_sum > r.total_sum /\ r.induction = 0

\* the all-gas usage of a row is defined and below the measured usage
BelowMeasured(r) ==
    /\ ~IsNaN(r.all_gas_usage)
    /\ r.all_gas_usage.num < r.usage_sum * r.all_gas_usage.den

\* the decline of a row is not negative, and 0 below the measured usage
DeclineClamped(r) ==
    /\ ~RatLt0(r.decline)
    /\ BelowMeasured(r) => RatEq(r.decline, Rat(0, 1))

\* C9: the estimated usage decline is never negative in the year table and
\* the year x district x usage table, and it is 0 where the all-gas usage is
\* below the measured usage.
C9_DeclineNonNegative ==
    analysis_mode = 2 =>
        /\ \A j \in 1..Len(year_agg) : DeclineClamped(year_agg[j])
        /\ \A r \in grp : DeclineClamped(r)

\* both tables have a row whose all-gas usage is below the measured usage
C9_Witness ==
    /\ analysis_mode = 2
    /\ \E j \in 1..Len(year_agg) :
        BelowMeasured(year_agg[j]) /\ year_agg[j].usage_sum > 0
    /\ \E r \in grp : BelowMeasured(r) /\ r.usage_sum > 0

\* the records of df_usage_raw that pass the common filter
Selected2 ==
    {i \in 1..Len(df_usage_raw.rows) :
        /\ df_usage_raw.rows[i].usage \in usage_sel
        /\ df_usage_raw.rows[i].product \in product_sel
        /\ (district_sel # {} => df_usage_raw.rows[i].district \in district_sel)}

RECURSIVE SumUsageAt(_, _)
\* the sum of the base usage of the rows of df at the indices idx
SumUsageAt(df, idx) ==
    IF idx = {} THEN 0
    ELSE LET i == CHOOSE i \in idx : TRUE
         IN (IF IsNaN(df[i].usage_base) THEN 0 ELSE df[i].usage_base.num)
            + SumUsageAt(df, idx \ {i})

\* the selected records of year y / of year, district and usage k
InYear(y) == {i \in Selected2 : df_usage_raw.rows[i].year = y}

InYearDistrictUsage(k) ==
    {i \in Selected2 :
        /\ df_usage_raw.rows[i].year = k[1]
        /\ df_usage_raw.rows[i].district = k[2]
        /\ df_usage_raw.rows[i].usage = k[3]}

\* usage / gas ranges of the records idx, NaN without gas ranges
UsagePerRange(idx) ==
    IF SumCntAt(df_usage_raw.rows, idx) > 0
    THEN Rat(SumUsageAt(df_usage_raw.rows, idx), SumCntAt(df_usage_raw.rows, idx))
    ELSE NaN

SameFloat(x, y) == IF IsNaN(y) THEN IsNaN(x) ELSE RatEq(x, y)

\* the average usage of a row is its usage sum over its meters without the
\* estimated induction households
AvgPerGasMeter(r) ==
    IF r.total_sum - r.induction > 0
    THEN RatEq(r.avg_usage, Rat(r.usage_sum, r.total_sum - r.induction))
    ELSE IsNaN(r.avg_usage)

\* C10 as stated: the average usage of a gas unit is the usage sum divided by
\* (total meters - estimated induction households) when that is positive, and
\* undefined otherwise.  Stated on files with connected-meter figures (v3),
\* where the induction estimate is total minus connected meters.
C10_Original ==
    (/\ analysis_mode = 2
     /\ \A i \in 1..Len(df_usage_raw.rows) : ~IsNaN(df_usage_raw.rows[i].conn))
    =>
        /\ \A j \in 1..Len(year_agg) : AvgPerGasMeter(year_agg[j])
        /\ \A r \in grp : AvgPerGasMeter(r)

\* C10 amended: the average usage of a gas unit is the usage sum divided by
\* the sum of the gas-range counts of the aggregation key when that sum is
\* positive, and undefined otherwise.
C10_AvgPerGasRange ==
    analysis_mode = 2 =>
        /\ \A j \in 1..Len(year_agg) :
            SameFloat(year_agg[j].avg_usage, UsagePerRange(InYear(year_agg[j].key)))
        /\ \A r \in grp :
            SameFloat(r.avg_usage, UsagePerRange(InYearDistrictUsage(r.key)))

\* a row whose gas ranges differ from its meters without induction, and a
\* row without gas ranges
C10_Witness ==
    /\ analysis_mode = 2
    /\ \E j \in 1..Len(year_agg) :
        /\ year_agg[j].cnt_sum > 0
        /\ year_agg[j].total_sum - year_agg[j].induction > 0
        /\ year_agg[j].cnt_sum # year_agg[j].total_sum - year_agg[j].induction
        /\ RatEq(year_agg[j].avg_usage,
                 Rat(year_agg[j].usage_sum, year_agg[j].cnt_sum))
    /\ \E r \in grp : r.cnt_sum = 0 /\ IsNaN(r.avg_usage)

-----------------------------------------------------------------------------
(* Claims on the boundary join *)

\* the values of the chosen property, in feature order
GeoNames ==
    [j \in 1..Len(geojson.features) |->
        PropGet(geojson.features[j], GEO_NAME_FIELD)]

\* tab2 has attached geo_key from the boundary features
Attached ==
    /\ analysis_mode = 1
    /\ map_table # <<>>
    /\ geojson.exists
    /\ GEO_NAME_FIELD # NoField

\* the features whose value contains the district name d
Containing(d) == {j \in 1..Len(GeoNames) : IsSubstring(d, GeoNames[j])}

\* C11: a district whose name is a substring of some value of the chosen
\* property gets a feature value that contains it as geo_key, and the first
\* such value in feature order when no value equals the name; so the
\* values "jung-gu " (trailing blank) and "dong-gu" resolve both districts.
C11_SubstringResolves ==
    Attached =>
        \A i \in 1..Len(map_table) :
            LET d == map_table[i].district
            IN Containing(d) # {} =>
                /\ map_table[i].geo_key \in {GeoNames[j] : j \in Containing(d)}
                /\ (d \notin Range(GeoNames) =>
                      map_table[i].geo_key =
                          GeoNames[CHOOSE j \in Containing(d) :
                                      \A k \in Containing(d) : j <= k])

\* the scenario of the claim: values "jung-gu " and "dong-gu"
C11_Witness ==
    /\ Attached
    /\ GeoNames = <<JungGu \o <<" ">>, DongGu>>
    /\ \E i \in 1..Len(map_table) :
        map_table[i].district = JungGu /\ map_table[i].geo_key = JungGu \o <<" ">>
    /\ \E i \in 1..Len(map_table) :
        map_table[i].district = DongGu /\ map_table[i].geo_key = DongGu

\* C12: a district that no value of the chosen property contains keeps its
\* own name as geo_key and still has its pivot row, and a feature no row
\* carries the value of is drawn in the neutral fill.
C12_JoinMissNeutral ==
    (analysis_mode = 1 /\ map_table # <<>>) =>
        /\ \A i \in 1..Len(TARGET_SIGUNGU) :
            LET d == TARGET_SIGUNGU[i]
            IN (~Attached \/ Containing(d) = {}) =>
                /\ i \in 1..Len(map_table)
                /\ map_table[i].district = d
                /\ map_table[i].geo_key = d
        /\ Attached =>
            /\ Len(choropleth) = Len(GeoNames)
            /\ \A j \in 1..Len(GeoNames) :
                (\A i \in 1..Len(map_table) :
                    map_table[i].geo_key # GeoNames[j])
                => choropleth[j].grey

\* the features "jung-gu" and "gyeong-san": Seo-gu is in no value and keeps
\* its name, and the second feature has no row and is neutral while the
\* first is coloured
C12_Witness ==
    /\ Attached
    /\ GeoNames = <<JungGu, <<"gyeong", "san">> >>
    /\ map_table[3].district = SeoGu
    /\ map_table[3].geo_key = SeoGu
    /\ ~choropleth[1].grey
    /\ choropleth[2].grey

\* the keys of the properties, in declaration order (those of the first
\* feature)
PropsKeys ==
    [j \in 1..Len(geojson.features[1]) |-> geojson.features[1][j][1]]

\* the target districts that occur in the value of key of some feature
TargetsIn(key) ==
    {d \in Range(TARGET_SIGUNGU) :
        \E i \in 1..Len(geojson.features) :
            IsSubstring(d, PropGet(geojson.features[i], key))}

\* C13: the property key load_geojson chooses has the greatest number of
\* target districts occurring in its values, and is the first key in
\* declaration order with that number.
C13_BestFieldFirstMax ==
    (geojson.exists /\ geojson.features # <<>>) =>
        \E j \in 1..Len(PropsKeys) :
            /\ GEO_NAME_FIELD = PropsKeys[j]
            /\ \A k \in 1..Len(PropsKeys) :
                Cardinality(TargetsIn(PropsKeys[k])) <=
                    Cardinality(TargetsIn(PropsKeys[j]))
            /\ \A k \in 1..(j - 1) :
                Cardinality(TargetsIn(PropsKeys[k])) <
                    Cardinality(TargetsIn(PropsKeys[j]))

\* the first key chosen among two keys with the same positive number
C13_Witness ==
    /\ geojson.exists
    /\ Cardinality(TargetsIn("code")) = 1
    /\ Cardinality(TargetsIn("name")) = 1
    /\ GEO_NAME_FIELD = "code"

-----------------------------------------------------------------------------
(* Claims on a source without a consumption column *)

\* the loaded rows have no consumption: the source had no consumption column
NoConsumptionColumn ==
    /\ df_usage_raw.exists
    /\ \A i \in 1..Len(df_usage_raw.rows) : IsNaN(df_usage_raw.rows[i].usage_base)

\* the consumption sum of a row of an estimation table is not zero and its
\* estimated consumption decline is undefined
ConsumptionUndefined(r) == r.usage_sum # 0 /\ IsNaN(r.decline)

\* C15 as stated: when the source has no consumption column, the consumption
\* sum and the estimated consumption decline of the estimation tables are
\* undefined, not zero.
C15_Original ==
    (analysis_mode = 2 /\ NoConsumptionColumn) =>
        /\ \A j \in 1..Len(year_agg) : ConsumptionUndefined(year_agg[j])
        /\ \A r \in grp : ConsumptionUndefined(r)

-----------------------------------------------------------------------------
(* Claims on recomputation *)

\* the tab2 table computed from the loaded records and the present widget
\* values alone, without the cache
FreshMapTable ==
    LET mt == build_map_table_cached(df_raw, usage_sel, product_sel,
                                     base_year, comp_year)
    IN IF mt = <<>> THEN <<>>
       ELSE IF geojson.exists /\ GEO_NAME_FIELD # NoField
            THEN _attach_geo_key(mt, geojson, GEO_NAME_FIELD)
            ELSE [i \in 1..Len(mt) |-> WithGeoKey(mt[i], mt[i].district)]

\* the filtered records of analysis 2 under the present widget values
FreshDfu == FilterUsageData(df_usage_raw.rows, usage_sel, product_sel, district_sel)

\* C16: after every sequence of widget changes the derived tables are those
\* computed from scratch from the loaded records with the present values
\* of the widgets: no table depends on an earlier selection, the table the
\* cached pivot builder returns included.
C16_TablesFromFinalValues ==
    /\ analysis_mode = 1 =>
        /\ map_table = FreshMapTable
        /\ choropleth = Tab2Choropleth(FreshMapTable, geojson, GEO_NAME_FIELD)
        /\ year_agg = <<>> /\ gu_house = {} /\ grp = {}
    /\ (analysis_mode = 2 /\ df_usage_raw.exists /\ FreshDfu # <<>>) =>
        /\ map_table = <<>> /\ choropleth = <<>>
        /\ year_agg = YearAgg(df_usage_raw.cols, FreshDfu)
        /\ gu_house = GuHouse(df_usage_raw.cols, FreshDfu, year_sel_gu)
        /\ grp = Grp(df_usage_raw.cols, FreshDfu)
    /\ (analysis_mode = 2 /\ ~(df_usage_raw.exists /\ FreshDfu # <<>>)) =>
        /\ map_table = <<>> /\ choropleth = <<>>
        /\ year_agg = <<>> /\ gu_house = {} /\ grp = {}

\* a run of tab2 that was served from the cache: the entry of the default
\* widget values was stored by the first run, other years were selected in
\* between, and the present run has the default years again with another
\* district selection
C16_Witness ==
    /\ analysis_mode = 1
    /\ cache_entry # <<>>
    /\ cache_key = CacheKey(df_raw, usage_list, product_list, years[1],
                            years[Len(years)])
    /\ cache_key = CacheKey(df_raw, usage_sel, product_sel, base_year, comp_year)
    /\ district_sel = {}
    /\ map_table # <<>>

-----------------------------------------------------------------------------
(* Claims on the loaded records *)

\* the frame _attach_geo_key received is the pivot as it was built
AttachInputKept ==
    Attached =>
        pivot_table = build_map_table_cached(df_raw, usage_sel, product_sel,
                                             base_year, comp_year)

\* C17: no widget change and no derivation of the run it triggers modifies
\* the loaded records: df_raw and df_usage_raw are after the run what the
\* loaders produced, and the pivot handed to _attach_geo_key is unchanged
\* by it.
C17_RecordsImmutable ==
    [][/\ df_raw' = df_raw
       /\ df_usage_raw' = df_usage_raw
       /\ AttachInputKept']_vars

\* a later run whose common filter drops a loaded record, with geo_key
\* attached to the pivot
C17_Witness ==
    /\ Attached
    /\ CommonFilter(df_raw, usage_sel, product_sel, district_sel) # df_raw
    /\ pivot_table # <<>>
    /\ \E i \in 1..Len(map_table) : map_table[i].geo_key # map_table[i].district

-----------------------------------------------------------------------------
(* Claims on the loading of the analysis-1 sheet *)

\* a first cell that is the header key once its blanks are taken off
IsHeaderCell(c) ==
    LET NotBlank(ch) == ch # " "
    IN c.t = "str" /\ SelectSeq(c.s, NotBlank) = COL_YEAR_MONTH

HeaderCells == {i \in 1..Len(raw) : IsHeaderCell(raw[i].first)}

\* the rows under the first header row that have a cell
RawData ==
    LET h == CHOOSE i \in HeaderCells : \A k \in HeaderCells : i <= k
        HasCell(r) == r # BlankRow
    IN SelectSeq(SubSeq(raw, h + 1, Len(raw)), HasCell)

\* the number a period cell denotes: that of an integer or float cell, that
\* of the digits of a text cell
PeriodCode(c) ==
    IF c.t = "str" THEN StrToInt(SelectSeq(c.s, IsDigit)) ELSE c.n

\* a period cell that holds no code: a text with a character that is neither
\* a digit nor a blank
NoPeriodCode(c) ==
    c.t = "str" /\ \E i \in 1..Len(c.s) : ~IsDigit(c.s[i]) /\ c.s[i] # " "

\* C18: a period code YYYYMM is parsed into the year YYYY and the month MM,
\* in the analysis-1 sheet and in the analysis-2 file, and the code
\* stringified as a float ("201501.0") gives the year and month of "201501".
C18_PeriodParsed ==
    /\ load_status = "ok" =>
        /\ Len(df_raw) = Len(RawData)
        /\ \A k \in 1..Len(df_raw) :
            /\ df_raw[k].year = PeriodCode(RawData[k].first) \div 100
            /\ df_raw[k].month = PeriodCode(RawData[k].first) % 100
        /\ \A k \in 1..Len(df_raw), l \in 1..Len(df_raw) :
            AsStr(RawData[k].first) = AsStr(RawData[l].first) \o <<".", "0">> =>
                /\ df_raw[k].year = df_raw[l].year
                /\ df_raw[k].month = df_raw[l].month
    /\ \A i \in 1..Len(df_usage_raw.rows) :
        /\ df_usage_raw.rows[i].year = df_usage_raw.rows[i].period \div 100
        /\ df_usage_raw.rows[i].month = df_usage_raw.rows[i].period % 100

\* a sheet with the code 201501 as an integer and as a float
C18_Witness ==
    /\ load_status = "ok"
    /\ Len(df_raw) = 2
    /\ RawData[1].first = IntCell(201501)
    /\ RawData[2].first = FloatCell(201501)
    /\ df_raw[2].period = <<"2", "0", "1", "5", "0", "1", ".", "0">>
    /\ df_raw[2].year = 2015
    /\ df_raw[2].month = 1

\* a count cell that is no number: an empty cell, or a text with a
\* character that no number has
NonNumeric(c) ==
    \/ c.t = "nan"
    \/ c.t = "str" /\ \E i \in 1..Len(c.s) : ~IsDigit(c.s[i]) /\ c.s[i] \notin {",", "."}

\* C19: the count coercion keeps a clean integer (and a second application
\* changes nothing), reads "1,234" as 1234, and gives 0 for every value
\* that is no number, which never ends the load.
C19_CountCoercion ==
    /\ load_status = "ok" =>
        \A k \in 1..Len(df_raw) :
            LET c == RawData[k].cnt
                v == df_raw[k].range_cnt
            IN /\ c.t = "int" => v = c.n
               /\ _to_int_series(IntCell(v)) = v
               /\ c = StrCell(<<"1", ",", "2", "3", "4">>) => v = 1234
               /\ NonNumeric(c) => v = 0
    /\ (HeaderCells # {} /\ load_status # "ok") =>
        \E k \in 1..Len(RawData) : NoPeriodCode(RawData[k].first)

\* a sheet with the counts "1,234" and "abc"
C19_Witness ==
    /\ load_status = "ok"
    /\ Len(df_raw) = 2
    /\ RawData[1].cnt = StrCell(<<"1", ",", "2", "3", "4">>)
    /\ df_raw[1].range_cnt = 1234
    /\ RawData[2].cnt = StrCell(<<"a", "b", "c">>)
    /\ df_raw[2].range_cnt = 0

\* C20: without a row whose first cell is the header key after trimming,
\* load_data reports the missing header and the script halts: no record, no
\* widget value and no table exists.  With such rows the first one is the
\* header row: the records are the rows under it.
C20_HeaderRequired ==
    /\ HeaderCells = {} =>
        /\ load_status = "stopped"
        /\ df_raw = <<>>
        /\ analysis_mode = 0
        /\ ~df_usage_raw.exists
        /\ map_table = <<>> /\ year_agg = <<>> /\ gu_house = {} /\ grp = {}
        /\ ~ENABLED Next
    /\ HeaderCells # {} =>
        /\ load_status # "stopped"
        /\ load_status = "ok" =>
            /\ Len(df_raw) = Len(RawData)
            /\ \A k \in 1..Len(df_raw) :
                /\ df_raw[k].district = Strip(RawData[k].district)
                /\ df_raw[k].usage = RawData[k].usage

\* a sheet with a title row and data rows but no header row
C20_Witness ==
    /\ HeaderCells = {}
    /\ Len(raw) = 3
    /\ raw[1] = TitleRow
    /\ raw[2].first = IntCell(201501)
    /\ load_status = "stopped"

-----------------------------------------------------------------------------
(* Claims on the failure of the period parsing *)

\* the first four characters of the trimmed text of a period cell
LeadingFour(c) == Slice(Strip(AsStr(c)), 0, 4)

\* the data rows whose period code does not start with four digits
BadPeriodRows == {k \in 1..Len(RawData) : ~IsIntText(LeadingFour(RawData[k].first))}

\* C21: when the period code of some data row does not start with four
\* numeric characters, loading fails for the whole sheet: ValueError is
\* raised and no record is produced, not even those of the other rows; the
\* script goes no further.
C21_PeriodErrorFatal ==
    (HeaderCells # {} /\ BadPeriodRows # {}) =>
        /\ load_status = "ValueError"
        /\ df_raw = <<>>
        /\ ~ScriptRuns
        /\ map_table = <<>>
        /\ ~ENABLED Next

\* a sheet with a well-formed period in its first data row and the code
\* "201x01" in its second: loading has failed and there is no record
C21_Witness ==
    /\ HeaderCells # {}
    /\ Len(RawData) = 2
    /\ RawData[1].first = IntCell(201501)
    /\ RawData[2].first = StrCell(<<"2", "0", "1", "x", "0", "1">>)
    /\ load_status = "ValueError"
    /\ df_raw = <<>>

-----------------------------------------------------------------------------
(* Claims on feature values contained in the district name *)

\* the features whose value is contained in the district name d
ContainedIn(d) == {j \in 1..Len(GeoNames) : IsSubstring(GeoNames[j], d)}

\* C22 as stated: a district that no feature value contains, but that
\* contains some feature value, gets the first such value as geo_key.
C22_Original ==
    Attached =>
        \A i \in 1..Len(map_table) :
            LET d == map_table[i].district
            IN (Containing(d) = {} /\ ContainedIn(d) # {}) =>
                map_table[i].geo_key =
                    GeoNames[CHOOSE j \in ContainedIn(d) :
                                \A k \in ContainedIn(d) : j <= k]

\* C22, amended: a district that no feature value contains keeps its own
\* name as geo_key, also when it contains some feature value.
C22_NoReverseContainment ==
    Attached =>
        \A i \in 1..Len(map_table) :
            LET d == map_table[i].district
            IN (Containing(d) = {} /\ ContainedIn(d) # {}) =>
                map_table[i].geo_key = d

\* the example of the claim: the feature value "gyeong-san" and the district
\* "gyeong-san-si", under the property name
C22_Witness ==
    /\ Attached
    /\ GEO_NAME_FIELD = "name"
    /\ <<"gyeong", "san">> \in Range(GeoNames)
    /\ \E i \in 1..Len(map_table) :
        /\ map_table[i].district = GyeongsanSi
        /\ Containing(GyeongsanSi) = {}
        /\ map_table[i].geo_key = GyeongsanSi

-----------------------------------------------------------------------------
(* Claims on the period summary *)

\* tab1 has drawn its summary
Tab1Ok == analysis_mode = 1 /\ tab1.status = "ok"

\* the frame tab1 works on
Selected1Df == CommonFilter(df_raw, usage_sel, product_sel, district_sel)

\* C23 as stated: in every row of the yearly summary but the first, the
\* prior-year delta is the monthly average of the year minus that of the
\* calendar year immediately before; it is undefined in the first row.
C23_Original ==
    Tab1Ok =>
        \A j \in 1..Len(tab1.yearly) :
            IF j = 1 THEN IsNaN(tab1.yearly[j].delta)
            ELSE \E k \in 1..Len(tab1.yearly) :
                    /\ tab1.yearly[k].year = tab1.yearly[j].year - 1
                    /\ RatEq(tab1.yearly[j].delta,
                             RatSub(tab1.yearly[j].avg, tab1.yearly[k].avg))

\* the records of df_raw that pass the common filter of analysis 1
Filtered1 ==
    {i \in Selected1 : district_sel # {} => df_raw[i].district \in district_sel}

\* the years of the filtered data and the annual total of a year
FilteredYears == {df_raw[i].year : i \in Filtered1}

AnnualTotal(y) == SumCntAt(df_raw, {i \in Filtered1 : df_raw[i].year = y})

LastYear == CHOOSE y \in FilteredYears : \A z \in FilteredYears : z <= y

\* C24: the reported peak year is a year of the filtered data whose annual
\* total is the largest, and the reported decline is
\* (annual total of the last year / annual total of the peak year - 1) x 100.
C24_PeakAndDecline ==
    Tab1Ok =>
        /\ tab1.peak_year_y \in FilteredYears
        /\ \A y \in FilteredYears : AnnualTotal(y) <= AnnualTotal(tab1.peak_year_y)
        /\ RatEq(tab1.decline_pct_y,
                 Rat((AnnualTotal(LastYear) - AnnualTotal(tab1.peak_year_y)) * 100,
                     AnnualTotal(tab1.peak_year_y)))

\* 1000 gas ranges in the peak year 2015 and 400 in the last year 2024: the
\* decline is -60 %
C24_Witness ==
    /\ Tab1Ok
    /\ FilteredYears = {2015, 2024}
    /\ tab1.peak_year_y = 2015
    /\ AnnualTotal(2015) = 1000
    /\ AnnualTotal(2024) = 400
    /\ RatEq(tab1.decline_pct_y, Rat(-60, 1))

-----------------------------------------------------------------------------
(* Claims on the sign of the counts *)

\* C25 as stated: every record the loaders produce has a count of gas
\* ranges of at least 0, whatever the cells of the sheet hold.
C25_Original ==
    /\ \A i \in 1..Len(df_raw) : df_raw[i].range_cnt >= 0
    /\ \A i \in 1..Len(df_usage_raw.rows) : df_usage_raw.rows[i].range_cnt >= 0

-----------------------------------------------------------------------------
(* Claims on districts that share a feature *)

\* the boundary data has one feature per target district, its value of the
\* chosen property being the district name
OneFeaturePerTarget ==
    /\ Len(GeoNames) = Len(TARGET_SIGUNGU)
    /\ Range(GeoNames) = Range(TARGET_SIGUNGU)

\* C26 as stated: with one feature per target district, named exactly as the
\* district, two target districts never get the same geo_key, whatever the
\* order of the features.
C26_Original ==
    (Attached /\ OneFeaturePerTarget) =>
        \A i \in 1..Len(map_table), k \in 1..Len(map_table) :
            i # k => map_table[i].geo_key # map_table[k].geo_key

-----------------------------------------------------------------------------
(* Claims on the division by the peak *)

\* -100 <= x <= 0 for a float x
InDeclineRange(x) ==
    /\ ~IsNaN(x)
    /\ IF x.den > 0
       THEN -100 * x.den <= x.num /\ x.num <= 0
       ELSE -100 * x.den >= x.num /\ x.num >= 0

\* C27 as stated: on a filtered frame that is not empty and has no negative
\* count, the declines against the yearly and the monthly peak are computed
\* without a division error and lie between -100 and 0, also when every
\* count is 0.
C27_Original ==
    (/\ analysis_mode = 1
     /\ Filtered1 # {}
     /\ \A i \in Filtered1 : df_raw[i].range_cnt >= 0) =>
        /\ tab1.status # "ZeroDivisionError"
        /\ tab1.status = "ok" =>
            /\ InDeclineRange(tab1.decline_pct_y)
            /\ InDeclineRange(tab1.decline_pct_m)

-----------------------------------------------------------------------------
(* Claims on the two district tables of analysis 2 *)

\* C28 as stated: for the same filters and the same year, a district has the
\* same estimated induction count in the district comparison (gu_house) and
\* in the district totals of the district/usage tab (gu_agg).
C28_Original ==
    (analysis_mode = 2 /\ year_sel_gu # 0 /\ year_sel_gu = year_sel) =>
        /\ {h.key : h \in gu_house} = {a.key : a \in gu_agg}
        /\ \A h \in gu_house, a \in gu_agg :
            h.key = a.key => h.induction = a.induction

-----------------------------------------------------------------------------
(* Claims on the merge of the v3 sheets *)

\* the periods of the total-meter sheet and of the merged records
MergePeriods ==
    {usage_raw.total[i].period : i \in 1..Len(usage_raw.total)} \cup
    {df_usage_raw.rows[i].period : i \in 1..Len(df_usage_raw.rows)}

\* the meters of period p in the total-meter sheet
SheetTotal(p) ==
    LET OfPeriod(r) == r.period = p
        rows == SelectSeq(usage_raw.total, OfPeriod)
    IN SumSeq([i \in 1..Len(rows) |-> rows[i].cnt])

\* the meters of period p in the merged records
MergedTotal(p) ==
    LET OfPeriod(r) == r.period = p
        rows == SelectSeq(df_usage_raw.rows, OfPeriod)
    IN SumSkipNa([i \in 1..Len(rows) |-> rows[i].total])

\* C29 as stated: in the v3 load, the total meters of the merged records of
\* every period add up to the counts of that period in the total-meter
\* sheet: the merge loses no meter and counts none twice.
C29_Original ==
    (usage_raw.ver = "v3" /\ df_usage_raw.exists) =>
        \A p \in MergePeriods : MergedTotal(p) = SheetTotal(p)

-----------------------------------------------------------------------------
(* Claims on the composition chart *)

\* the denominator of a row of the yearly estimation: the connected meters
\* when some record of the year has that figure, else the gas ranges
Denominator(row) ==
    IF \E i \in InYear(row.key) : ~IsNaN(df_usage_raw.rows[i].conn)
    THEN row.conn_sum
    ELSE row.cnt_sum

\* C30 as stated: in every row of the yearly estimation whose total meters
\* are at least the denominator, the gas ranges and the estimated induction
\* households, the two stacked bars of the composition chart, add up to the
\* total meters.
C30_Original ==
    analysis_mode = 2 =>
        \A j \in 1..Len(year_agg) :
            year_agg[j].total_sum >= Denominator(year_agg[j]) =>
                year_agg[j].cnt_sum + year_agg[j].induction = year_agg[j].total_sum

====
